---------------------------- MODULE Spec2Model ----------------------------
(***************************************************************************)
(* A model of the APKINDEX dependency resolver (src/3etap.py, src/main.py):*)
(* the remote index fetcher, the archive decoder, the direct-dependency    *)
(* query, the graph builder and the explicit-stack transitive resolver.    *)
(*                                                                         *)
(* Each function is a small state machine over its own variables; each     *)
(* specification runs one function (or one chain of functions) on inputs   *)
(* drawn from bounded sets and holds the other variables fixed. The        *)
(* properties checked follow the specifications.                           *)
(***************************************************************************)
EXTENDS Integers, Sequences, FiniteSets, TLC

VARIABLES
    pc,            \* position of the running function
    \* dfs_transitive / build_graph / get_package_dependencies
    graph,         \* Dict[str, List[str]]: a function from its keys to sequences
    start_pkg,     \* the start package of dfs_transitive
    visited,       \* the visited set of dfs_transitive
    stack,         \* the explicit stack of dfs_transitive (top = last element)
    result,        \* the result list of dfs_transitive
    dfs_err,       \* "none", or the exception dfs_transitive raised
    records,       \* the record sequence given to the query and the builder
    filter_substr, \* the exclusion substring given to build_graph
    rec_i,         \* number of records build_graph has processed
    deps,          \* what get_package_dependencies returned
    deps_err,      \* "none", or the exception get_package_dependencies raised
    \* fetch_index_remote
    repo_url,      \* the (normalised) base URL
    cand_i,        \* number of candidates tried so far
    last_error,    \* the local last_error
    requested,     \* the URLs requested so far, in order
    responses,     \* what the transport answered to each request, in order
    fetch_out,     \* NoOutcome, the returned body, or the raised error
    \* extract_index
    raw,           \* the input of extract_index
    member_i,      \* number of archive members scanned
    extract_out    \* NoOutcome, the returned text, or the raised error

dfsVars     == <<graph, start_pkg, visited, stack, result, dfs_err>>
callVars    == <<records, filter_substr, rec_i, deps, deps_err>>
fetchVars   == <<repo_url, cand_i, last_error, requested, responses, fetch_out>>
extractVars == <<raw, member_i, extract_out>>
vars == <<pc, dfsVars, callVars, fetchVars, extractVars>>

----------------------------------------------------------------------------
(* Bounds of the model.                                                    *)

MaxDeps == 2       \* longest dependency list of a graph drawn for the resolver
MaxRecords == 2    \* longest record sequence drawn for the query and the builder
MaxMembers == 2    \* most members of an archive drawn for the decoder

----------------------------------------------------------------------------
(* Values shared by the functions.                                         *)

None == <<"None">>                 \* Python's None where a string is expected
NoError == "None"                  \* Python's None where an exception is expected
NoOutcome == [kind |-> "running"]  \* the function has neither returned nor raised

SeqsUpTo(S, n) == UNION {[1..k -> S] : k \in 0..n}

ToSet(s) == {s[i] : i \in 1..Len(s)}

----------------------------------------------------------------------------
(* dfs_transitive (src/3etap.py 230-245).                                  *)

\* (mutant) the dependency list is walked in reverse
GraphGetReversed(g, pkg) ==
    IF pkg \in DOMAIN g THEN [i \in 1..Len(g[pkg]) |-> g[pkg][Len(g[pkg]) + 1 - i]] ELSE <<>>

\* graph.get(pkg, [])
GraphGet(g, pkg) == IF pkg \in DOMAIN g THEN g[pkg] ELSE <<>>

\* stack.pop(): the element removed and the stack left
Top(s) == s[Len(s)]

\* (mutant) the top is read but never taken off the stack
PopKeepsTop(s) == s

Pop(s) == SubSeq(s, 1, Len(s) - 1)

\* (mutant) only the first unvisited dependency is pushed
PushFirstDepOnly(s, ds, seen) ==
    LET NotSeen(d) == d \notin seen
        new == SelectSeq(ds, NotSeen)
    IN  IF new = <<>> THEN s ELSE Append(s, new[1])

\* for dep in graph.get(pkg, []): if dep not in visited: stack.append(dep)
PushDeps(s, ds, seen) ==
    LET NotSeen(d) == d \notin seen
    IN  s \o SelectSeq(ds, NotSeen)

\* list.remove(x): drops the first occurrence of x (the caller handles absence)
FirstIndex(s, x) == CHOOSE i \in 1..Len(s) : s[i] = x /\ \A j \in 1..(i-1) : s[j] # x

\* (mutant) nothing is removed
RemoveNothing(s, x) == s

Remove(s, x) ==
    LET i == FirstIndex(s, x)
    IN  SubSeq(s, 1, i - 1) \o SubSeq(s, i + 1, Len(s))

\* lines 231-233: visited = set(); stack = [start_pkg]; result = []
DfsEnter ==
    /\ pc = "call_dfs"
    /\ visited' = {}
    /\ stack' = <<start_pkg>>
    /\ result' = <<>>
    /\ pc' = "dfs_loop"
    /\ UNCHANGED <<graph, start_pkg, dfs_err, callVars, fetchVars, extractVars>>

\* lines 235-238: one iteration that pops an already visited name
DfsSkip ==
    /\ pc = "dfs_loop"
    /\ stack # <<>>
    /\ Top(stack) \in visited
    /\ stack' = Pop(stack)
    /\ UNCHANGED <<pc, graph, start_pkg, visited, result, dfs_err,
                   callVars, fetchVars, extractVars>>

\* lines 235-243: one iteration that visits the popped name
DfsVisit ==
    /\ pc = "dfs_loop"
    /\ stack # <<>>
    /\ Top(stack) \notin visited
    /\ LET pkg == Top(stack)
           seen == visited \cup {pkg}
       IN  /\ visited' = seen
           /\ result' = Append(result, pkg)
           /\ stack' = PushDeps(Pop(stack), GraphGet(graph, pkg), seen)
    /\ UNCHANGED <<pc, graph, start_pkg, dfs_err, callVars, fetchVars, extractVars>>

\* lines 244-245: result.remove(start_pkg); return result
DfsReturn ==
    /\ pc = "dfs_loop"
    /\ stack = <<>>
    /\ IF start_pkg \in ToSet(result)
          THEN result' = Remove(result, start_pkg) /\ dfs_err' = "none"
          ELSE result' = result /\ dfs_err' = "ValueError"
    /\ pc' = "done"
    /\ UNCHANGED <<graph, start_pkg, visited, stack, callVars, fetchVars, extractVars>>

----------------------------------------------------------------------------
(* Strings are sequences of characters; a record is a function from the    *)
(* field codes it holds to strings.                                        *)

\* str.split() separates on runs of whitespace
IsSpace(c) == c \in {" ", "\t"}

\* sub in s
Contains(sub, s) ==
    \E i \in 0..(Len(s) - Len(sub)) : SubSeq(s, i + 1, i + Len(sub)) = sub

\* s.split(): the maximal runs of non-whitespace characters, in order
RECURSIVE SplitFrom(_, _, _, _)
SplitFrom(s, i, cur, acc) ==
    IF i > Len(s)
       THEN IF cur = <<>> THEN acc ELSE Append(acc, cur)
       ELSE IF IsSpace(s[i])
               THEN SplitFrom(s, i + 1, <<>>, IF cur = <<>> THEN acc ELSE Append(acc, cur))
               ELSE SplitFrom(s, i + 1, Append(cur, s[i]), acc)

Split(s) == SplitFrom(s, 1, <<>>, <<>>)

\* rec.get(key): None when the record has no such field
RecGet(rec, key) == IF key \in DOMAIN rec THEN rec[key] ELSE None

\* rec.get(key, default)
RecGetOr(rec, key, default) == IF key \in DOMAIN rec THEN rec[key] ELSE default

\* Python truthiness of an optional string: None and "" are false
Truthy(v) == v # None /\ v # <<>>

----------------------------------------------------------------------------
(* get_package_dependencies (src/3etap.py 183-192, src/main.py 156-165).   *)

\* line 184: matches = [r for r in records if r.get("P") == package]
Matches(recs, package) ==
    LET IsMatch(r) == RecGet(r, "P") = package
    IN  SelectSeq(recs, IsMatch)

\* (mutant) the D field is returned whole, not split
DepsUnsplit(rec) ==
    LET deps_raw == RecGet(rec, "D")
    IN  IF ~Truthy(deps_raw) THEN <<>> ELSE <<deps_raw>>

\* lines 188-192: the dependency list of the record chosen
DepsOfRecord(rec) ==
    LET deps_raw == RecGet(rec, "D")
    IN  IF ~Truthy(deps_raw) THEN <<>> ELSE Split(deps_raw)

\* (mutant) an unknown package has no dependencies
NoMatchEmptyList == [err |-> "none", deps |-> <<>>]

\* lines 185-186: what the function does when no record matches
NoMatchOutcome == [err |-> "ApkIndexError", deps |-> None]

\* the whole function: the list returned, or the error raised
GetPackageDependencies(recs, package) ==
    LET matches == Matches(recs, package)
    IN  IF matches = <<>>
           THEN NoMatchOutcome
           ELSE [err |-> "none", deps |-> DepsOfRecord(matches[1])]

GetDeps ==
    /\ pc = "call_getdeps"
    /\ LET out == GetPackageDependencies(records, start_pkg)
       IN  deps' = out.deps /\ deps_err' = out.err
    /\ pc' = "call_build"
    /\ UNCHANGED <<dfsVars, records, filter_substr, rec_i, fetchVars, extractVars>>

----------------------------------------------------------------------------
(* build_graph (src/3etap.py 197-212).                                     *)

EmptyGraph == [k \in {} |-> <<>>]

\* (mutant) dependency names are not filtered
KeepEveryDep(d, filter) == TRUE

\* line 209: keep a dependency unless the non-empty filter occurs in it
KeepDep(d, filter) == filter = <<>> \/ ~Contains(filter, d)

\* lines 207-209
FilteredDeps(rec, filter) ==
    LET Keep(d) == KeepDep(d, filter)
    IN  SelectSeq(Split(RecGetOr(rec, "D", <<>>)), Keep)

\* line 204: the record is excluded by the filter
NameFiltered(pkg, filter) == filter # <<>> /\ Contains(filter, pkg)

\* line 211: graph[pkg] = deps
GraphPut(g, pkg, ds) ==
    [k \in DOMAIN g \cup {pkg} |-> IF k = pkg THEN ds ELSE g[k]]

\* line 198: graph = {}
BuildEnter ==
    /\ pc = "call_build"
    /\ graph' = EmptyGraph
    /\ rec_i' = 0
    /\ pc' = "build_loop"
    /\ UNCHANGED <<start_pkg, visited, stack, result, dfs_err,
                   records, filter_substr, deps, deps_err, fetchVars, extractVars>>

\* lines 200-202: a record without a (non-empty) P is skipped
BuildSkipUnnamed ==
    /\ pc = "build_loop"
    /\ rec_i < Len(records)
    /\ ~Truthy(RecGet(records[rec_i + 1], "P"))
    /\ rec_i' = rec_i + 1
    /\ UNCHANGED <<pc, dfsVars, records, filter_substr, deps, deps_err,
                   fetchVars, extractVars>>

\* lines 204-205: a record whose name holds the filter substring is skipped
BuildSkipFiltered ==
    /\ pc = "build_loop"
    /\ rec_i < Len(records)
    /\ Truthy(RecGet(records[rec_i + 1], "P"))
    /\ NameFiltered(RecGet(records[rec_i + 1], "P"), filter_substr)
    /\ rec_i' = rec_i + 1
    /\ UNCHANGED <<pc, dfsVars, records, filter_substr, deps, deps_err,
                   fetchVars, extractVars>>

\* lines 207-211: the record is kept
BuildInsert ==
    /\ pc = "build_loop"
    /\ rec_i < Len(records)
    /\ LET rec == records[rec_i + 1]
           pkg == RecGet(rec, "P")
       IN  /\ Truthy(pkg)
           /\ ~NameFiltered(pkg, filter_substr)
           /\ graph' = GraphPut(graph, pkg, FilteredDeps(rec, filter_substr))
    /\ rec_i' = rec_i + 1
    /\ UNCHANGED <<pc, start_pkg, visited, stack, result, dfs_err,
                   records, filter_substr, deps, deps_err, fetchVars, extractVars>>

\* line 212: return graph; the resolver is then called on it (line 300)
BuildReturn ==
    /\ pc = "build_loop"
    /\ rec_i = Len(records)
    /\ pc' = "call_dfs"
    /\ UNCHANGED <<dfsVars, callVars, fetchVars, extractVars>>

----------------------------------------------------------------------------
(* fetch_index_remote (src/3etap.py 105-126, src/main.py 88-109).          *)

\* s.endswith(suffix)
EndsWith(s, suffix) ==
    /\ Len(suffix) <= Len(s)
    /\ SubSeq(s, Len(s) - Len(suffix) + 1, Len(s)) = suffix

\* lines 106-107: if not repo_url.endswith("/"): repo_url += "/"
NormaliseUrl(u) == IF EndsWith(u, <<"/">>) THEN u ELSE u \o <<"/">>

\* (mutant) the plain index is tried before the archive
CandidatesSwapped(u) == << u \o <<"APKINDEX">>, u \o <<"APKINDEX.tar.gz">> >>

\* lines 109-112: the candidate URLs, in the order they are tried
Candidates(u) == << u \o <<"APKINDEX.tar.gz">>, u \o <<"APKINDEX">> >>

\* line 121: if data
BodyTruthy(data) == data # <<>>

\* line 126: the ApkIndexError raised, with what its message is built from
FetchError(u, err) == [kind |-> "raised", error |-> "ApkIndexError", url |-> u, last |-> err]

\* what urlopen(url, timeout=20) and r.read() may do
TransportErrors == {"timeout", "HTTP404", "refused"}

Bodies == {<<>>, <<80>>, <<80, 58>>}

TransportAnswers ==
    [kind : {"error"}, err : TransportErrors] \cup [kind : {"body"}, data : Bodies]

\* lines 106-114
FetchEnter ==
    /\ pc = "call_fetch"
    /\ repo_url' = NormaliseUrl(repo_url)
    /\ last_error' = NoError
    /\ cand_i' = 0
    /\ pc' = "fetch_loop"
    /\ UNCHANGED <<requested, responses, fetch_out, dfsVars, callVars, extractVars>>

\* lines 116-122: the request succeeds with a non-empty body, which is returned
FetchReturn ==
    /\ pc = "fetch_loop"
    /\ cand_i < Len(Candidates(repo_url))
    /\ \E ans \in TransportAnswers :
          /\ ans.kind = "body"
          /\ BodyTruthy(ans.data)
          /\ requested' = Append(requested, Candidates(repo_url)[cand_i + 1])
          /\ responses' = Append(responses, ans)
          /\ fetch_out' = [kind |-> "returned", data |-> ans.data]
    /\ cand_i' = cand_i + 1
    /\ pc' = "done"
    /\ UNCHANGED <<repo_url, last_error, dfsVars, callVars, extractVars>>

\* lines 116-121: the request succeeds with an empty body; the loop goes on
FetchEmpty ==
    /\ pc = "fetch_loop"
    /\ cand_i < Len(Candidates(repo_url))
    /\ \E ans \in TransportAnswers :
          /\ ans.kind = "body"
          /\ ~BodyTruthy(ans.data)
          /\ requested' = Append(requested, Candidates(repo_url)[cand_i + 1])
          /\ responses' = Append(responses, ans)
    /\ cand_i' = cand_i + 1
    /\ UNCHANGED <<pc, repo_url, last_error, fetch_out, dfsVars, callVars, extractVars>>

\* lines 123-124: the request raises; except Exception as e: last_error = e
FetchFail ==
    /\ pc = "fetch_loop"
    /\ cand_i < Len(Candidates(repo_url))
    /\ \E ans \in TransportAnswers :
          /\ ans.kind = "error"
          /\ requested' = Append(requested, Candidates(repo_url)[cand_i + 1])
          /\ responses' = Append(responses, ans)
          /\ last_error' = ans.err
    /\ cand_i' = cand_i + 1
    /\ UNCHANGED <<pc, repo_url, fetch_out, dfsVars, callVars, extractVars>>

\* line 126: every candidate was tried
FetchRaise ==
    /\ pc = "fetch_loop"
    /\ cand_i = Len(Candidates(repo_url))
    /\ fetch_out' = FetchError(repo_url, last_error)
    /\ pc' = "done"
    /\ UNCHANGED <<repo_url, cand_i, last_error, requested, responses,
                   dfsVars, callVars, extractVars>>

----------------------------------------------------------------------------
(* extract_index (src/3etap.py 149-164, src/main.py 122-137).              *)
(*                                                                         *)
(* The input is a byte string. What tarfile makes of it is part of the     *)
(* input: the members it lists, and the point, if any, at which it raises  *)
(* tarfile.ReadError because the bytes are not a well-formed gzip/tar      *)
(* container ("open": tarfile.open, "getmembers": tf.getmembers(), "read": *)
(* f.read(); "never": the container is well-formed).                       *)

APKINDEX == <<"A", "P", "K", "I", "N", "D", "E", "X">>

\* bytes.decode("utf-8", errors="replace") on ASCII bytes and the invalid byte
\* 0xFF: the code points of the text, U+FFFD for each invalid byte
Decode(bytes) == [i \in 1..Len(bytes) |-> IF bytes[i] < 128 THEN bytes[i] ELSE 65533]

\* line 156: m.name.endswith("APKINDEX") or m.name == "APKINDEX"
IsIndexMember(m) == EndsWith(m.name, APKINDEX) \/ m.name = APKINDEX

\* (mutant) except Exception
CaughtAnyException(exc) == TRUE

\* line 163: except tarfile.ReadError
Caught(exc) == exc = "ReadError"

\* an exception leaves the try block of lines 150-162
AfterRaise(exc, msg, bytes) ==
    IF Caught(exc)
       THEN [kind |-> "returned", via |-> "fallback", text |-> Decode(bytes)]
       ELSE [kind |-> "raised", error |-> exc, msg |-> msg]

\* line 154: tarfile.open(fileobj=bio, mode="r:gz")
ExtractOpen ==
    /\ pc = "call_extract"
    /\ IF raw.readError = "open"
          THEN /\ extract_out' = AfterRaise("ReadError", "open", raw.bytes)
               /\ pc' = "done"
          ELSE /\ extract_out' = extract_out
               /\ pc' = "getmembers"
    /\ UNCHANGED <<raw, member_i, dfsVars, callVars, fetchVars>>

\* line 155: tf.getmembers()
ExtractMembers ==
    /\ pc = "getmembers"
    /\ IF raw.readError = "getmembers"
          THEN /\ extract_out' = AfterRaise("ReadError", "getmembers", raw.bytes)
               /\ pc' = "done"
          ELSE /\ extract_out' = extract_out
               /\ pc' = "scan"
    /\ member_i' = 0
    /\ UNCHANGED <<raw, dfsVars, callVars, fetchVars>>

\* lines 155-156: a member whose name does not match is passed over
ExtractPass ==
    /\ pc = "scan"
    /\ member_i < Len(raw.members)
    /\ ~IsIndexMember(raw.members[member_i + 1])
    /\ member_i' = member_i + 1
    /\ UNCHANGED <<pc, raw, extract_out, dfsVars, callVars, fetchVars>>

\* lines 157-159: tf.extractfile(m) is None (the member is no regular file)
ExtractUnreadable ==
    /\ pc = "scan"
    /\ member_i < Len(raw.members)
    /\ IsIndexMember(raw.members[member_i + 1])
    /\ ~raw.members[member_i + 1].isfile
    /\ extract_out' = AfterRaise("ApkIndexError", "cannot extract", raw.bytes)
    /\ pc' = "done"
    /\ UNCHANGED <<raw, member_i, dfsVars, callVars, fetchVars>>

\* line 160: return f.read().decode("utf-8", errors="replace")
ExtractRead ==
    /\ pc = "scan"
    /\ member_i < Len(raw.members)
    /\ IsIndexMember(raw.members[member_i + 1])
    /\ raw.members[member_i + 1].isfile
    /\ extract_out' =
          IF raw.readError = "read"
             THEN AfterRaise("ReadError", "read", raw.bytes)
             ELSE [kind |-> "returned", via |-> "entry",
                   text |-> Decode(raw.members[member_i + 1].data)]
    /\ pc' = "done"
    /\ UNCHANGED <<raw, member_i, dfsVars, callVars, fetchVars>>

\* line 162: no member matched
ExtractNotFound ==
    /\ pc = "scan"
    /\ member_i = Len(raw.members)
    /\ extract_out' = AfterRaise("ApkIndexError", "not found", raw.bytes)
    /\ pc' = "done"
    /\ UNCHANGED <<raw, member_i, dfsVars, callVars, fetchVars>>

----------------------------------------------------------------------------
(* Inputs.                                                                 *)

\* package names of the graphs drawn for the resolver (opaque to it)
NameFamilies == {{"A", "B"}, {"busybox", "libc", "musl"}}

\* every graph over a family: any subset of the names as keys, any dependency
\* list (duplicates, self-loops and names that are not keys included)
GraphsOver(N) == UNION {[K -> SeqsUpTo(N, MaxDeps)] : K \in SUBSET N}

\* field values of the records drawn for the query and the builder
PValues == {<<>>, <<"a">>, <<"a", "b">>}

DValues == {<<>>, <<"b", " ", "b">>, <<"a", "b", " ", "\t", "a">>}

MkRecord(p, d) ==
    [k \in (IF p = None THEN {} ELSE {"P"}) \cup (IF d = None THEN {} ELSE {"D"})
        |-> IF k = "P" THEN p ELSE d]

Records == {MkRecord(p, d) : p \in PValues \cup {None}, d \in DValues \cup {None}}

Filters == {<<>>, <<"a">>, <<"b">>, <<"a", "b">>}

\* package_name is never empty (validate_config, src/3etap.py 75-76)
Packages == {<<"a">>, <<"b">>, <<"a", "b">>, <<"b", "a">>}

BaseUrls == {<<"h", ":", "/", "/", "r">>, <<"h", ":", "/", "/", "r", "/">>,
             <<"h", ":", "/", "/", "r", "/", "v">>, <<"h", ":", "/", "/", "s", "/">>}

RawBytes == {<<>>, <<80, 58, 120>>, <<31, 139, 255>>}

MemberNames == {APKINDEX, <<"d", "/">> \o APKINDEX, APKINDEX \o <<".", "o">>, <<"x">>}

MemberData == {<<80>>, <<255, 10>>}

Members == [name : MemberNames, isfile : BOOLEAN, data : MemberData]

Raws ==
    {[bytes |-> b, members |-> <<>>, readError |-> "open"] : b \in RawBytes}
    \cup [bytes : RawBytes, members : SeqsUpTo(Members, MaxMembers),
          readError : {"getmembers", "read", "never"}]

----------------------------------------------------------------------------
(* Specifications.                                                         *)

IdleDfs ==
    /\ graph = EmptyGraph /\ start_pkg = <<>> /\ visited = {} /\ stack = <<>>
    /\ result = <<>> /\ dfs_err = "none"

IdleCalls ==
    /\ records = <<>> /\ filter_substr = <<>> /\ rec_i = 0
    /\ deps = None /\ deps_err = "none"

IdleFetch ==
    /\ repo_url = <<>> /\ cand_i = 0 /\ last_error = NoError
    /\ requested = <<>> /\ responses = <<>> /\ fetch_out = NoOutcome

IdleExtract ==
    /\ raw = [bytes |-> <<>>, members |-> <<>>, readError |-> "open"]
    /\ member_i = 0 /\ extract_out = NoOutcome

\* dfs_transitive on any graph and start name of a family
InitDfs ==
    /\ pc = "call_dfs"
    /\ \E N \in NameFamilies : graph \in GraphsOver(N) /\ start_pkg \in N
    /\ visited = {} /\ stack = <<>> /\ result = <<>> /\ dfs_err = "none"
    /\ IdleCalls /\ IdleFetch /\ IdleExtract

NextDfs == DfsEnter \/ DfsSkip \/ DfsVisit \/ DfsReturn

SpecDfs == InitDfs /\ [][NextDfs]_vars

\* the loop is run to its end: the interpreter takes the next step whenever
\* there is one
SpecDfsFair == SpecDfs /\ WF_vars(NextDfs)

\* get_package_dependencies, build_graph and dfs_transitive applied, each on its
\* own, to the same records, package name and filter substring
InitCalls ==
    /\ pc = "call_getdeps"
    /\ records \in SeqsUpTo(Records, MaxRecords)
    /\ filter_substr \in Filters
    /\ start_pkg \in Packages
    /\ graph = EmptyGraph /\ visited = {} /\ stack = <<>> /\ result = <<>>
    /\ dfs_err = "none" /\ rec_i = 0 /\ deps = None /\ deps_err = "none"
    /\ IdleFetch /\ IdleExtract

NextCalls ==
    \/ GetDeps
    \/ BuildEnter \/ BuildSkipUnnamed \/ BuildSkipFiltered \/ BuildInsert \/ BuildReturn
    \/ DfsEnter \/ DfsSkip \/ DfsVisit \/ DfsReturn

SpecCalls == InitCalls /\ [][NextCalls]_vars

\* fetch_index_remote on any base URL, against any transport behaviour
InitFetch ==
    /\ pc = "call_fetch"
    /\ repo_url \in BaseUrls
    /\ cand_i = 0 /\ last_error = NoError
    /\ requested = <<>> /\ responses = <<>> /\ fetch_out = NoOutcome
    /\ IdleDfs /\ IdleCalls /\ IdleExtract

NextFetch == FetchEnter \/ FetchReturn \/ FetchEmpty \/ FetchFail \/ FetchRaise

SpecFetch == InitFetch /\ [][NextFetch]_vars

\* extract_index on any input
InitExtract ==
    /\ pc = "call_extract"
    /\ raw \in Raws
    /\ member_i = 0 /\ extract_out = NoOutcome
    /\ IdleDfs /\ IdleCalls /\ IdleFetch

NextExtract ==
    \/ ExtractOpen \/ ExtractMembers \/ ExtractPass
    \/ ExtractUnreadable \/ ExtractRead \/ ExtractNotFound

SpecExtract == InitExtract /\ [][NextExtract]_vars

----------------------------------------------------------------------------
(* Properties of dfs_transitive.                                           *)

NoDuplicates(s) == \A i, j \in 1..Len(s) : s[i] = s[j] => i = j

\* the names one dependency edge away from n
Successors(g, n) == IF n \in DOMAIN g THEN {g[n][i] : i \in 1..Len(g[n])} ELSE {}

\* the least set that holds S and is closed under dependency edges
RECURSIVE Closure(_, _)
Closure(g, S) ==
    LET T == S \cup UNION {Successors(g, n) : n \in S}
    IN  IF T = S THEN S ELSE Closure(g, T)

\* the names reachable from s by one or more dependency edges
ReachableFrom(g, s) == Closure(g, Successors(g, s))

\* C1: when dfs_transitive has returned, its result does not hold the start
\* name and holds no name twice, whatever the graph (cycles, self-loops,
\* duplicate entries, dependencies that are not keys) and the start name.
C1_NoStartNoDuplicates ==
    pc = "done" =>
        /\ dfs_err = "none"
        /\ start_pkg \notin ToSet(result)
        /\ NoDuplicates(result)

\* a run on a start name with a duplicated dependency that lies on a cycle
C1_Witness ==
    /\ pc = "done"
    /\ start_pkg \in DOMAIN graph
    /\ Len(graph[start_pkg]) = 2
    /\ graph[start_pkg][1] = graph[start_pkg][2]
    /\ \E k \in DOMAIN graph : start_pkg \in ToSet(graph[k]) /\ k # start_pkg
    /\ Len(result) >= 1

\* C2: the names returned are exactly the names reachable from the start by
\* one or more dependency edges, the start itself left out.
C2_ExactlyReachable ==
    pc = "done" => ToSet(result) = ReachableFrom(graph, start_pkg) \ {start_pkg}

\* a run that returns a name that is not a key and leaves an unreachable key out
C2_Witness ==
    /\ pc = "done"
    /\ \E n \in ToSet(result) : n \notin DOMAIN graph
    /\ \E k \in DOMAIN graph : k # start_pkg /\ k \notin ToSet(result)
    /\ Len(result) >= 1

CycleAB == [k \in {"A", "B"} |-> IF k = "A" THEN <<"B">> ELSE <<"A">>]

\* C3: the traversal loop always comes to its end with an empty stack, cycles
\* or not, and on the graph A->B, B->A started from A it returns exactly [B].
C3_Terminates ==
    /\ <>(pc = "done" /\ stack = <<>>)
    /\ [](pc = "done" /\ graph = CycleAB /\ start_pkg = "A" => result = <<"B">>)

\* the run on A->B, B->A from A has ended
C3_Witness ==
    /\ pc = "done"
    /\ graph = CycleAB
    /\ start_pkg = "A"
    /\ visited = {"A", "B"}
    /\ result = <<"B">>

\* the algorithm as specified: pop the top; discard it if visited; otherwise
\* mark it, append it and push every dependency listed for it, in listed order
RECURSIVE SpecifiedLoop(_, _, _, _)
SpecifiedLoop(g, stk, seen, res) ==
    IF stk = <<>>
       THEN res
       ELSE LET top == stk[Len(stk)]
                rest == SubSeq(stk, 1, Len(stk) - 1)
            IN  IF top \in seen
                   THEN SpecifiedLoop(g, rest, seen, res)
                   ELSE SpecifiedLoop(g, rest \o (IF top \in DOMAIN g THEN g[top] ELSE <<>>),
                                      seen \cup {top}, Append(res, top))

\* ... and the start name removed from what the loop produced
SpecifiedTransitive(g, s) ==
    LET NotStart(x) == x # s
    IN  SelectSeq(SpecifiedLoop(g, <<s>>, {}, <<>>), NotStart)

BusyboxGraph ==
    [k \in {"busybox", "libc", "musl"} |->
        IF k = "busybox" THEN <<"libc", "musl">> ELSE <<>>]

\* C9: the sequence returned (pushing only unvisited dependencies) is, element
\* for element, the sequence of the specified algorithm (pushing them all);
\* siblings come out in reverse listed order: busybox: [libc, musl] gives
\* [musl, libc].
C9_SameAsSpecified ==
    pc = "done" =>
        /\ result = SpecifiedTransitive(graph, start_pkg)
        /\ (graph = BusyboxGraph /\ start_pkg = "busybox" => result = <<"musl", "libc">>)

\* a run in which the specified algorithm pushes a visited name the code does
\* not push, and in which two siblings are visited
C9_Witness ==
    /\ pc = "done"
    /\ start_pkg = "busybox"
    /\ "busybox" \in DOMAIN graph /\ graph["busybox"] = <<"libc", "musl">>
    /\ "musl" \in DOMAIN graph /\ graph["musl"] = <<"busybox", "libc">>
    /\ result = <<"musl", "libc">>

----------------------------------------------------------------------------
(* Properties of build_graph and get_package_dependencies.                 *)

\* the records whose P field is the name p
RecordsNamed(recs, p) == {i \in 1..Len(recs) : "P" \in DOMAIN recs[i] /\ recs[i]["P"] = p}

\* build_graph has returned
BuildDone == pc \in {"call_dfs", "dfs_loop", "done"}

\* C4: with a non-empty filter substring, after every record processed the
\* graph has no key that holds the substring and no dependency name in any
\* value list that holds it.
C4_FilteredGraph ==
    filter_substr # <<>> =>
        \A k \in DOMAIN graph :
            /\ ~Contains(filter_substr, k)
            /\ \A i \in 1..Len(graph[k]) : ~Contains(filter_substr, graph[k][i])

\* between two records: the first was kept and lost a dependency to the filter
C4_Witness ==
    /\ pc = "build_loop"
    /\ rec_i = 1
    /\ Len(records) = 2
    /\ filter_substr = <<"b">>
    /\ DOMAIN graph = {<<"a">>}
    /\ records[1] = MkRecord(<<"a">>, <<"a", "b", " ", "\t", "a">>)
    /\ graph[<<"a">>] = << <<"a">> >>

\* C8: a start name that is not a key makes dfs_transitive return the empty
\* sequence without an error, while a package no record names makes
\* get_package_dependencies raise instead of returning an empty list.
C8_UnknownPackage ==
    pc = "done" =>
        /\ start_pkg \notin DOMAIN graph => result = <<>> /\ dfs_err = "none"
        /\ RecordsNamed(records, start_pkg) = {} => deps_err = "ApkIndexError" /\ deps = None

\* both functions were given a name that the records, and so the graph, lack
C8_Witness ==
    /\ pc = "done"
    /\ RecordsNamed(records, start_pkg) = {}
    /\ graph # EmptyGraph
    /\ start_pkg \notin DOMAIN graph
    /\ result = <<>>
    /\ dfs_err = "none"
    /\ deps_err = "ApkIndexError"

\* C10 as stated: with an empty filter, for a name that some record carries
\* (once or more), the direct dependencies returned are the list stored under
\* that name in the graph.
C10_DirectEqualsGraph ==
    BuildDone /\ filter_substr = <<>> /\ RecordsNamed(records, start_pkg) # {} =>
        /\ deps_err = "none"
        /\ start_pkg \in DOMAIN graph
        /\ deps = graph[start_pkg]

\* C10 amended: with an empty filter, for a non-empty name that exactly one
\* record carries, the direct dependencies returned are the list stored under
\* that name in the graph.
C10_DirectEqualsGraphWhenListedOnce ==
    /\ BuildDone
    /\ filter_substr = <<>>
    /\ start_pkg # <<>>
    /\ Cardinality(RecordsNamed(records, start_pkg)) = 1
    => /\ deps_err = "none"
       /\ start_pkg \in DOMAIN graph
       /\ deps = graph[start_pkg]

\* a package listed once, after another package, with two dependencies
C10_Witness ==
    /\ BuildDone
    /\ filter_substr = <<>>
    /\ Len(records) = 2
    /\ RecordsNamed(records, start_pkg) = {2}
    /\ start_pkg # <<>>
    /\ DOMAIN graph = {<<"a">>, <<"a", "b">>}
    /\ deps = << <<"a", "b">>, <<"a">> >>

----------------------------------------------------------------------------
(* Properties of fetch_index_remote.                                       *)

\* the transport answered with a non-empty body
GoodAnswer(ans) == ans.kind = "body" /\ ans.data # <<>>

\* C5: the candidates are requested in the order APKINDEX.tar.gz, APKINDEX; at
\* most two requests are made; the body of the first candidate that answers
\* with a non-empty body is returned and nothing is requested after it; the
\* second is requested only after the first failed or was empty; the error is
\* raised only when no candidate gave a non-empty body.
C5_FallbackOrder ==
    /\ Len(requested) <= 2
    /\ Len(responses) = Len(requested)
    /\ \A i \in 1..Len(requested) :
          requested[i] = repo_url \o <<IF i = 1 THEN "APKINDEX.tar.gz" ELSE "APKINDEX">>
    /\ \A i \in 1..Len(responses) :
          GoodAnswer(responses[i]) =>
              /\ i = Len(responses)
              /\ fetch_out = [kind |-> "returned", data |-> responses[i].data]
    /\ fetch_out.kind = "returned" => GoodAnswer(responses[Len(responses)])
    /\ fetch_out.kind = "raised" =>
          /\ Len(responses) = 2
          /\ \A i \in 1..2 : ~GoodAnswer(responses[i])

\* the archive failed and the plain index was returned
C5_Witness ==
    /\ pc = "done"
    /\ Len(requested) = 2
    /\ responses[1] = [kind |-> "error", err |-> "HTTP404"]
    /\ fetch_out = [kind |-> "returned", data |-> <<80, 58>>]

\* C6 as stated: an empty body is recorded as an error like a failure is, so
\* the error raised when every candidate failed carries the base URL and the
\* error of the last candidate attempted.
C6_LastErrorIsLastCandidates ==
    fetch_out.kind = "raised" =>
        LET last == responses[Len(responses)]
        IN  /\ fetch_out.url = repo_url
            /\ fetch_out.last # NoError
            /\ last.kind = "error" => fetch_out.last = last.err
            /\ last.kind = "body" => fetch_out.last \notin TransportErrors

----------------------------------------------------------------------------
(* Properties of extract_index.                                            *)

\* an entry named APKINDEX or ending with APKINDEX
NamedIndex(name) ==
    \/ name = APKINDEX
    \/ Len(name) >= Len(APKINDEX)
       /\ SubSeq(name, Len(name) - Len(APKINDEX) + 1, Len(name)) = APKINDEX

\* the positions of such entries in the archive
IndexEntries(r) == {i \in 1..Len(r.members) : NamedIndex(r.members[i].name)}

Least(S) == CHOOSE i \in S : \A j \in S : i <= j

\* C7: the raw input decoded as text is returned only when the input is not a
\* well-formed container; a well-formed archive with no APKINDEX entry, or
\* whose first APKINDEX entry gives no readable stream, fails with the index
\* error and never with the fallback text; otherwise the content of the first
\* APKINDEX entry, in archive order, is returned.
C7_FallbackOnlyOnFormatError ==
    pc = "done" =>
        /\ extract_out.kind = "returned" /\ extract_out.via = "fallback" =>
              /\ raw.readError # "never"
              /\ extract_out.text = Decode(raw.bytes)
        /\ raw.readError = "never" =>
              IF IndexEntries(raw) = {} \/ ~raw.members[Least(IndexEntries(raw))].isfile
                 THEN /\ extract_out.kind = "raised"
                      /\ extract_out.error = "ApkIndexError"
                 ELSE extract_out =
                         [kind |-> "returned", via |-> "entry",
                          text |-> Decode(raw.members[Least(IndexEntries(raw))].data)]

\* a well-formed archive of two entries, neither of them the index
C7_Witness ==
    /\ pc = "done"
    /\ raw.readError = "never"
    /\ Len(raw.members) = 2
    /\ IndexEntries(raw) = {}
    /\ extract_out.kind = "raised"

============================================================================
